---- MODULE Spec2Model ----
(***************************************************************************)
(* Model of src/index.js: an Express server that answers the webhook       *)
(* handshake (GET /webhook), verifies and processes webhook deliveries     *)
(* (POST /webhook) by sending one templated reply per replyable event, and *)
(* lists conversations (GET /ig/conversations).                            *)
(*                                                                         *)
(* JavaScript values are records [jt |-> <type>, val |-> <content>];       *)
(* undefined and null carry no content.  Header strings that are compared  *)
(* byte-wise are sequences of character codes, other strings are TLA+      *)
(* strings.  A JavaScript exception is the value Throw.                    *)
(***************************************************************************)
EXTENDS Naturals, Sequences, FiniteSets, TLC

VARIABLES
    expressMajor,   \* major version of the express package that is installed
    APP_SECRET,     \* process.env.APP_SECRET
    VERIFY_TOKEN,   \* process.env.VERIFY_TOKEN
    vreq,           \* the request handed to verifyMetaSignature (pure-function check)
    verdict,        \* what verifyMetaSignature returned for vreq
    hs,             \* the last GET /webhook exchange
    conv,           \* the GET /ig/conversations request in progress
    pc,             \* per POST /webhook request: "idle", "awaiting", "done"
    body,           \* per request: req.body
    verified,       \* per request: result of verifyMetaSignature(req)
    pos,            \* per request: <<entry index, event index>> of the loop
    sends,          \* per request: the axios.post calls issued, in order
    inflight,       \* per request: number of axios.post calls not yet settled
    settled,        \* per request: number of tryReplyInstagram calls that returned
    lastResult,     \* per request: the value last logged as "Reply attempt:"
    resp            \* per request: the responses written, in order

cfgVars == <<expressMajor, APP_SECRET, VERIFY_TOKEN>>
verifyVars == <<vreq, verdict>>
hookVars == <<pc, body, verified, pos, sends, inflight, settled, lastResult, resp>>
vars == <<expressMajor, APP_SECRET, VERIFY_TOKEN, vreq, verdict, hs, conv,
          pc, body, verified, pos, sends, inflight, settled, lastResult, resp>>

---------------------------------------------------------------------------
(* Bounds of the model *)

NReq == 2          \* concurrent POST /webhook requests
MaxEntries == 2    \* entries of a webhook payload
MaxEvents == 2     \* events of a webhook payload, over all its entries
DigestBytes == 1   \* bytes of the keyed digest (32 for SHA-256)

---------------------------------------------------------------------------
(* JavaScript values *)

\* the element of a one-element set; {e(x) : x \in {v}} evaluates v once
The(S) == CHOOSE x \in S : TRUE

Undefined == [jt |-> "undefined"]
Null == [jt |-> "null"]
Throw == [jt |-> "throw"]
Str(s) == [jt |-> "string", val |-> s]
Arr(s) == [jt |-> "array", val |-> s]
Obj(f) == [jt |-> "object", val |-> f]
NoFields == [k \in {} |-> Undefined]
NonIterable == [jt |-> "number", val |-> 5]

\* ToBoolean: undefined, null and the empty string are falsy
Truthy(v) ==
    \E x \in {v} :
        CASE x.jt \in {"undefined", "null"} -> FALSE
          [] x.jt = "string" -> Len(x.val) > 0
          [] x.jt = "number" -> x.val # 0
          [] OTHER -> TRUE

\* a || b
Or(a, b) == The({IF Truthy(x) THEN x ELSE b : x \in {a}})

\* v.k : a TypeError on undefined and null
Get(v, k) ==
    The({CASE x.jt \in {"undefined", "null"} -> Throw
           [] x.jt = "object" -> IF k \in DOMAIN x.val THEN x.val[k] ELSE Undefined
           [] OTHER -> Undefined : x \in {v}})

\* v?.k
OptGet(v, k) ==
    The({IF x.jt \in {"undefined", "null"} THEN Undefined ELSE Get(x, k) : x \in {v}})

---------------------------------------------------------------------------
(* verifyMetaSignature, src/index.js 123-137 *)

RECURSIVE SumSeq(_)
SumSeq(s) == IF s = <<>> THEN 0 ELSE Head(s) + SumSeq(Tail(s))

\* Stand-in for crypto.createHmac("sha256", key).update(msg).digest(): a keyed
\* digest of DigestBytes bytes.  update(undefined) throws a TypeError.
Hmac(key, msg) ==
    IF msg.jt # "bytes" THEN Throw
    ELSE [jt |-> "bytes",
          val |-> [k \in 1..DigestBytes |->
            (SumSeq(key) * 31 + SumSeq(msg.val) * 7 + Len(msg.val) + k * 13) % 256]]

HexDigit(n) == IF n < 10 THEN 48 + n ELSE 87 + n

RECURSIVE HexOf(_)
\* digest("hex"): two lowercase hex characters per byte
HexOf(bytes) ==
    IF bytes = <<>> THEN <<>>
    ELSE <<HexDigit(Head(bytes) \div 16), HexDigit(Head(bytes) % 16)>>
            \o HexOf(Tail(bytes))

\* the characters of "sha256="
Sha256Prefix == <<115, 104, 97, 50, 53, 54, 61>>

RECURSIVE BufferFrom(_)
\* Buffer.from(string): UTF-8, one byte for an ASCII character, two for the
\* other characters a header value can hold (codes 128..255)
BufferFrom(chars) ==
    IF chars = <<>> THEN <<>>
    ELSE (IF Head(chars) < 128 THEN <<Head(chars)>>
          ELSE <<192 + (Head(chars) \div 64), 128 + (Head(chars) % 64)>>)
            \o BufferFrom(Tail(chars))

Bool(b) == [jt |-> "boolean", val |-> b]

\* crypto.timingSafeEqual: a RangeError when the byte lengths differ
TimingSafeEqual(a, b) == IF Len(a) # Len(b) THEN Throw ELSE Bool(a = b)

\* the body of the try block, lines 125-133
VerifyTry(req) ==
    LET signature == req.sig IN
    IF ~Truthy(signature) \/ ~Truthy(APP_SECRET) THEN Bool(TRUE)
    ELSE LET mac == Hmac(APP_SECRET.val, req.rawBody) IN
         IF mac.jt = "throw" THEN Throw
         ELSE TimingSafeEqual(BufferFrom(signature.val),
                              BufferFrom(Sha256Prefix \o HexOf(mac.val)))

\* try { ... } catch (e) { return false; }
verifyMetaSignature(req) ==
    IF VerifyTry(req).jt = "throw" THEN FALSE ELSE VerifyTry(req).val

---------------------------------------------------------------------------
(* Inputs of the signature check *)

Secrets == {Undefined, Str(<<>>), Str(<<107>>), Str(<<107, 50>>)}

Bytes(s) == [jt |-> "bytes", val |-> s]

\* req.rawBody: unset when the request had no body to parse
RawBodies == {Undefined, Bytes(<<>>), Bytes(<<123, 125>>), Bytes(<<123, 32, 125>>)}

\* "sha256=" + hex(HMAC(secret, raw)) for a secret and a raw body that are set
Expected(secret, raw) == Sha256Prefix \o HexOf(Hmac(secret.val, raw).val)

ValidSigs ==
    {Expected(s, b) : s \in {x \in Secrets : Truthy(x)},
                      b \in {x \in RawBodies : x.jt = "bytes"}}

\* characters put in place of one of a signature's: '0', 'f', and one that
\* takes two bytes in UTF-8
TamperChars == {48, 102, 233}

Replaced(s, p, c) == [i \in 1..Len(s) |-> IF i = p THEN c ELSE s[i]]

Tampered(s) ==
    {Replaced(s, p, c) : p \in 1..Len(s), c \in TamperChars}
        \cup {SubSeq(s, 1, n) : n \in 0..Len(s)}
        \cup {SubSeq(s, 1, n) \o <<c>> : n \in (Len(s) - 2)..Len(s), c \in TamperChars}

\* req.headers["x-hub-signature-256"]: absent, or any string
Signatures ==
    {Undefined} \cup {Str(t) : t \in UNION {Tampered(s) : s \in ValidSigs}}

VerifyRequests == [sig : Signatures, rawBody : RawBodies]

---------------------------------------------------------------------------
(* GET /webhook, src/index.js 25-36 *)

\* res.sendStatus(code): the status and its reason phrase as the body
SendStatus(code) ==
    [status |-> code, type |-> "text",
     body |-> CASE code = 200 -> "OK" [] code = 403 -> "Forbidden" [] OTHER -> ""]

\* res.status(200).send(v): a string is sent as it is, undefined as no body
Send200(v) ==
    [status |-> 200, type |-> "html", body |-> IF v.jt = "string" THEN v.val ELSE ""]

webhookGet(query) ==
    LET mode == query.mode
        token == query.token
        challenge == query.challenge
    IN IF mode = Str("subscribe") /\ token = VERIFY_TOKEN
       THEN Send200(challenge)
       ELSE SendStatus(403)

\* the query strings: each parameter absent or a string
HandshakeQueries ==
    [mode : {Undefined, Str("subscribe"), Str("unsubscribe"), Str("Subscribe")},
     token : {Undefined, Str(""), Str("tok"), Str("bad")},
     challenge : {Undefined, Str(""), Str("xyz123")}]

VerifyTokens == {Undefined, Str(""), Str("tok")}

---------------------------------------------------------------------------
(* Webhook payloads *)

Req == 1..NReq

Sender(id) == Obj([id |-> Str(id)])
Message(text) == Obj([text |-> Str(text)])

EvReceipt == Obj([sender |-> Sender("U1")])
EvNoSender == Obj([message |-> Message("hi")])
EvText == Obj([sender |-> Sender("U1"), message |-> Message("hi")])
EvEmptyText == Obj([sender |-> Sender("U2"), message |-> Message("")])
EvNoText == Obj([sender |-> Sender("U2"), message |-> Obj(NoFields)])

\* what an element of a messaging or standby list can be
Events == {Null, EvReceipt, EvNoSender, EvText, EvEmptyText, EvNoText}

EventSeqs(n) == [1..n -> Events]

\* what an element of a standby list is taken to be: a message or a receipt
StandbyEvents == {EvText, EvReceipt}

StandbySeqs(n) == [1..n -> StandbyEvents]

\* The entries that hold k events in all: no object, an object without lists,
\* with a messaging value that is no list, with a messaging list, with a
\* standby list, or with both lists (the standby list of one event).
EntriesOf(k) ==
    (IF k = 0
       THEN {Null, Obj(NoFields), Obj([messaging |-> NonIterable])}
       ELSE {Obj([standby |-> Arr(s)]) : s \in StandbySeqs(k)}
            \cup {Obj([messaging |-> Arr(m), standby |-> Arr(s)]) :
                    m \in EventSeqs(k - 1), s \in StandbySeqs(1)})
    \cup {Obj([messaging |-> Arr(m)]) : m \in EventSeqs(k)}

RECURSIVE EntrySeqs(_, _)
\* the sequences of at most n entries that hold at most b events in all
EntrySeqs(n, b) ==
    {<<>>} \cup
    (IF n = 0 THEN {}
     ELSE UNION {{<<e>> \o rest : e \in EntriesOf(k), rest \in EntrySeqs(n - 1, b - k)} :
                    k \in 0..b})

\* req.body as express.json() leaves it: not set when there was nothing to
\* parse, else the parsed object, with at most n entries and b events
Bodies(n, b) ==
    {Undefined, Obj(NoFields), Obj([object |-> Str("instagram"), entry |-> NonIterable])}
    \cup {Obj([object |-> Str("instagram"), entry |-> Arr(es)]) : es \in EntrySeqs(n, b)}

\* the payloads of the requests that are handled concurrently: none, one
\* without entries, the one-message payload, and one of two entries
ConcBodies ==
    {Undefined,
     Obj([object |-> Str("instagram")]),
     Obj([object |-> Str("instagram"),
          entry |-> Arr(<<Obj([messaging |-> Arr(<<EvText>>)])>>)]),
     Obj([object |-> Str("instagram"),
          entry |-> Arr(<<Obj([messaging |-> Arr(<<EvReceipt, EvText>>)]),
                          Obj([messaging |-> Arr(<<EvEmptyText>>)])>>)])}

HookRaw == Bytes(<<123, 125>>)

\* the signature header and raw body of a delivery: unsigned, signed with a
\* secret, signed with an empty or a truncated signature, or without a body
\* (the raw body is taken apart from the parsed one: the handler reads the
\* first only in the check and the second only after it)
HookRequests ==
    [sig : {Undefined, Str(<<>>), Str(Sha256Prefix)}
              \cup {Str(Expected(s, HookRaw)) : s \in {x \in Secrets : Truthy(x)}},
     rawBody : {HookRaw}]
    \cup {[sig |-> Str(Sha256Prefix), rawBody |-> Undefined]}

---------------------------------------------------------------------------
(* tryReplyInstagram, src/index.js 183-219 *)

Num(n) == [jt |-> "number", val |-> n]

\* how the axios.post call settles: fulfilled with a response, rejected with
\* an error that carries the response of a non-2xx status, or rejected with
\* an error that carries no response
OutcomeOk == [fulfilled |-> TRUE, value |-> Obj([data |-> Obj([message_id |-> Str("m1")])])]
OutcomeHttpError ==
    [fulfilled |-> FALSE,
     value |-> Obj([response |-> Obj([status |-> Num(400),
                    data |-> Obj([error |-> Obj([code |-> Num(10),
                                                 error_subcode |-> Num(2018278),
                                                 message |-> Str("outside window"),
                                                 type |-> Str("OAuthException")])])])])]
OutcomeNetworkError == [fulfilled |-> FALSE, value |-> Obj([code |-> Str("ECONNRESET")])]

SendOutcomes == {OutcomeOk, OutcomeHttpError, OutcomeNetworkError}

\* seeded fault: the rejection of axios.post is not caught
tryReplyRethrows(outcome) ==
    IF outcome.fulfilled THEN [ok |-> TRUE, data |-> Get(outcome.value, "data")]
    ELSE Throw

tryReplyInstagram(outcome) ==
    IF outcome.fulfilled
    THEN [ok |-> TRUE, data |-> Get(outcome.value, "data")]
    ELSE LET error == outcome.value
             errData == Or(OptGet(OptGet(error, "response"), "data"), Obj(NoFields))
         IN [ok |-> FALSE,
             error |-> [status |-> OptGet(OptGet(error, "response"), "status"),
                        code |-> OptGet(OptGet(errData, "error"), "code"),
                        subcode |-> OptGet(OptGet(errData, "error"), "error_subcode"),
                        message |-> OptGet(OptGet(errData, "error"), "message"),
                        type |-> OptGet(OptGet(errData, "error"), "type")]]

\* the payload of the axios.post call, lines 186-190
SendPayload(igPsid, text) ==
    [messaging_product |-> "instagram",
     recipient |-> [id |-> igPsid],
     message |-> [text |-> text]]

---------------------------------------------------------------------------
(* POST /webhook, src/index.js 140-180 *)

IsThrow(v) == \E x \in {v} : "jt" \in DOMAIN x /\ x.jt = "throw"

\* const changes = entry.messaging || entry.standby || [];
Changes(entry) ==
    The({IF IsThrow(Get(e, "messaging")) THEN Throw
         ELSE Or(Get(e, "messaging"), Or(Get(e, "standby"), Arr(<<>>))) : e \in {entry}})

\* seeded fault: the condition of line 163 with || in place of &&
IsReplyableEither(event) ==
    Truthy(OptGet(event, "message")) \/ Truthy(OptGet(OptGet(event, "sender"), "id"))

\* isMessage && senderId, lines 159-163
IsReplyable(event) ==
    \E ev \in {event} :
        LET senderId == OptGet(OptGet(ev, "sender"), "id")
            isMessage == Truthy(OptGet(ev, "message"))
        IN isMessage /\ Truthy(senderId)

\* the template literal of lines 165-167
ReplyText(event) ==
    LET messageText == OptGet(OptGet(event, "message"), "text")
    IN "Thanks for messaging us! You said: \""
          \o Or(messageText, Str("(no text)")).val \o "\""

\* the j-th event that for (const event of changes) visits
EventAt(list, j) == list[j]

RECURSIVE Scan(_, _, _)
\* The two loops of lines 155-173, run from entry i, event j, up to the next
\* await: "send" with the place of the event to reply to, "end" when the
\* entries are exhausted, "throw" when an access or an iteration throws.
Scan(entries, i, j) ==
    IF i > Len(entries) THEN [k |-> "end"]
    ELSE The({IF IsThrow(changes) \/ changes.jt # "array" THEN [k |-> "throw"]
              ELSE IF j > Len(changes.val) THEN Scan(entries, i + 1, 1)
              ELSE IF IsReplyable(EventAt(changes.val, j))
                   THEN [k |-> "send", i |-> i, j |-> j]
              ELSE Scan(entries, i, j + 1) : changes \in {Changes(entries[i])}})

\* if (body.entry) { for (const entry of body.entry) ...
ScanBody(b, i, j) ==
    The({IF ~Truthy(entry) THEN [k |-> "end"]
         ELSE IF entry.jt # "array" THEN [k |-> "throw"]
         ELSE Scan(entry.val, i, j) : entry \in {Get(b, "entry")}})

\* the call of line 168 for the event at entry i, event j
SendCall(b, i, j) ==
    The({[at |-> <<i, j>>,
          payload |-> SendPayload(OptGet(OptGet(event, "sender"), "id"),
                                  ReplyText(event))] :
            event \in {EventAt(Changes(Get(b, "entry").val[i]).val, j)}})

RECURSIVE AllSends(_, _, _)
\* every call the loops would make from entry i, event j on
AllSends(b, i, j) ==
    LET s == ScanBody(b, i, j) IN
    IF s.k # "send" THEN <<>>
    ELSE <<SendCall(b, s.i, s.j)>> \o AllSends(b, s.i, s.j + 1)

\* seeded fault: tryReplyInstagram is called without await, the loops run on and
\* the acknowledgment is written while the calls are outstanding
ContinueNoAwait(st, i, j) ==
    [st EXCEPT !.pc = "done",
               !.sends = @ \o AllSends(st.body, i, j),
               !.inflight = @ + Len(AllSends(st.body, i, j)),
               !.resp = Append(@, SendStatus(200))]

\* seeded fault: the acknowledgment is written before the loops, not after them
ContinueAckFirst(st, i, j) ==
    LET s == ScanBody(st.body, i, j)
        acked == [st EXCEPT !.resp = IF @ = <<>> THEN <<SendStatus(200)>> ELSE @]
    IN IF s.k = "send"
       THEN [acked EXCEPT !.pc = "awaiting", !.pos = <<s.i, s.j>>,
                          !.sends = Append(@, SendCall(st.body, s.i, s.j)),
                          !.inflight = @ + 1]
       ELSE [acked EXCEPT !.pc = "done"]

\* the handler at the outcome s of the loops: it suspends in the call of line
\* 168, or leaves the loops (an exception is caught at line 175) and writes
\* the acknowledgment of line 179
ContinueAt(st, s) ==
    IF s.k = "send"
    THEN [st EXCEPT !.pc = "awaiting", !.pos = <<s.i, s.j>>,
                    !.sends = Append(@, SendCall(st.body, s.i, s.j)),
                    !.inflight = @ + 1]
    ELSE [st EXCEPT !.pc = "done", !.resp = Append(@, SendStatus(200))]

\* The handler from the loop position <<i, j>> to its next await or to its
\* end.  (The loops are run once and their outcome is bound to s.)
Continue(st, i, j) == The({ContinueAt(st, s) : s \in {ScanBody(st.body, i, j)}})

\* A handler whose promise rejects.  express 5 passes the rejection to its
\* error handler, which answers with res.statusCode when that is an error
\* status and with 500 otherwise; express 4 ignores the promise and no
\* response is written.
Rejected(st, statusCode) ==
    IF expressMajor = 5
    THEN [st EXCEPT !.pc = "done",
                    !.resp = Append(@, [status |-> IF statusCode >= 400 THEN statusCode
                                                   ELSE 500,
                                        type |-> "html",
                                        body |-> "<error page>"])]
    ELSE [st EXCEPT !.pc = "done"]

\* req.body when express.json() parsed nothing: {} with express 4
\* (body-parser 1.x), left undefined with express 5 (body-parser 2.x)
ReqBody(parsed) ==
    IF parsed.jt = "undefined" /\ expressMajor = 4 THEN Obj(NoFields) ELSE parsed

IdleRequest ==
    [pc |-> "idle", body |-> Undefined, verified |-> FALSE, pos |-> <<0, 0>>,
     sends |-> <<>>, inflight |-> 0, settled |-> 0, lastResult |-> [ok |-> TRUE],
     resp |-> <<>>]

\* lines 146-179, after the signature check
Process(st) ==
    IF IsThrow(Get(st.body, "object")) THEN Rejected(st, 200)
    ELSE Continue(st, 1, 1)

\* seeded fault: the 403 is written without return and the handler goes on
webhookPostNoReturn(req) ==
    LET arrived == [IdleRequest EXCEPT !.body = ReqBody(req.body),
                                       !.verified = verifyMetaSignature(req)]
    IN IF ~arrived.verified
       THEN Process([arrived EXCEPT !.resp = <<SendStatus(403)>>])
       ELSE Process(arrived)

\* the handler from the arrival of the request to its first await or its end
webhookPost(req) ==
    LET arrived == [IdleRequest EXCEPT !.body = ReqBody(req.body),
                                       !.verified = verifyMetaSignature(req)]
    IN IF ~arrived.verified
       THEN [arrived EXCEPT !.pc = "done", !.resp = <<SendStatus(403)>>]
       ELSE Process(arrived)

\* the handler from the settling of the call of line 168 on: a value returned
\* by tryReplyInstagram is logged and the loops go on with the next event, an
\* exception thrown by it is caught at line 175
Resume(st, result) ==
    IF IsThrow(result)
    THEN [st EXCEPT !.pc = "done", !.resp = Append(@, SendStatus(200))]
    ELSE Continue([st EXCEPT !.settled = @ + 1, !.lastResult = result],
                  st.pos[1], st.pos[2] + 1)

State(r) ==
    [pc |-> pc[r], body |-> body[r], verified |-> verified[r], pos |-> pos[r],
     sends |-> sends[r], inflight |-> inflight[r], settled |-> settled[r],
     lastResult |-> lastResult[r], resp |-> resp[r]]

Store(r, st) ==
    /\ pc' = [pc EXCEPT ![r] = st.pc]
    /\ body' = [body EXCEPT ![r] = st.body]
    /\ verified' = [verified EXCEPT ![r] = st.verified]
    /\ pos' = [pos EXCEPT ![r] = st.pos]
    /\ sends' = [sends EXCEPT ![r] = st.sends]
    /\ inflight' = [inflight EXCEPT ![r] = st.inflight]
    /\ settled' = [settled EXCEPT ![r] = st.settled]
    /\ lastResult' = [lastResult EXCEPT ![r] = st.lastResult]
    /\ resp' = [resp EXCEPT ![r] = st.resp]

\* a delivery arrives and its handler runs to its first await or to its end
WebhookPost(r, bodies) ==
    /\ pc[r] = "idle"
    /\ \E hdr \in HookRequests, parsed \in bodies :
          \E st \in {webhookPost([sig |-> hdr.sig, rawBody |-> hdr.rawBody,
                                  body |-> parsed])} : Store(r, st)
    /\ UNCHANGED <<cfgVars, verifyVars, hs, conv>>

\* an outstanding axios.post call settles and the handler that awaits it runs
\* to its next await or to its end
SendSettles(r) ==
    /\ inflight[r] > 0
    /\ \E outcome \in SendOutcomes :
          \E st \in {IF pc[r] = "awaiting"
                      THEN Resume([State(r) EXCEPT !.inflight = @ - 1],
                                  tryReplyInstagram(outcome))
                      ELSE [State(r) EXCEPT !.inflight = @ - 1]} : Store(r, st)
    /\ UNCHANGED <<cfgVars, verifyVars, hs, conv>>

HookInit ==
    /\ pc = [r \in Req |-> "idle"]
    /\ body = [r \in Req |-> Undefined]
    /\ verified = [r \in Req |-> FALSE]
    /\ pos = [r \in Req |-> <<0, 0>>]
    /\ sends = [r \in Req |-> <<>>]
    /\ inflight = [r \in Req |-> 0]
    /\ settled = [r \in Req |-> 0]
    /\ lastResult = [r \in Req |-> [ok |-> TRUE]]
    /\ resp = [r \in Req |-> <<>>]

IdleInit ==
    /\ vreq = [sig |-> Undefined, rawBody |-> Undefined]
    /\ verdict = Undefined
    /\ hs = Undefined
    /\ conv = Undefined

ConfigInit ==
    /\ expressMajor \in {4, 5}
    /\ APP_SECRET \in {Undefined, Str(<<107>>)}
    /\ VERIFY_TOKEN = Str("tok")

\* concurrent deliveries, under every configuration
Init == ConfigInit /\ IdleInit /\ HookInit

Next == \E r \in Req : WebhookPost(r, ConcBodies) \/ SendSettles(r)

Spec == Init /\ [][Next]_vars

\* One delivery, any payload within the bounds, under the configuration that
\* allows every behaviour of the handler: with APP_SECRET set a request passes
\* or fails the check, and with express 5 req.body can be undefined (with
\* express 4 a request without a body is handled as one with the body {}).
PayloadInit ==
    /\ expressMajor = 5
    /\ APP_SECRET = Str(<<107>>)
    /\ VERIFY_TOKEN = Str("tok")
    /\ IdleInit
    /\ HookInit

PayloadNext == WebhookPost(1, Bodies(MaxEntries, MaxEvents)) \/ SendSettles(1)

PayloadSpec == PayloadInit /\ [][PayloadNext]_vars

\* every outbound call settles: axios.post resolves or rejects
FairSpec == Spec /\ \A r \in Req : WF_vars(SendSettles(r))

---------------------------------------------------------------------------
(* The signature check as a function of its inputs *)

VerifyInit ==
    /\ expressMajor = 4
    /\ APP_SECRET \in Secrets
    /\ VERIFY_TOKEN = Str("tok")
    /\ vreq \in VerifyRequests
    /\ verdict = Undefined
    /\ hs = Undefined
    /\ conv = Undefined
    /\ HookInit

VerifyCall ==
    /\ verdict = Undefined
    /\ verdict' = Bool(verifyMetaSignature(vreq))
    /\ UNCHANGED <<cfgVars, vreq, hs, conv, hookVars>>

VerifyNext == VerifyCall

VerifySpec == VerifyInit /\ [][VerifyNext]_vars

---------------------------------------------------------------------------
(* The handshake *)

HandshakeInit ==
    /\ expressMajor = 4
    /\ APP_SECRET = Undefined
    /\ VERIFY_TOKEN \in VerifyTokens
    /\ IdleInit
    /\ HookInit

WebhookGet ==
    /\ \E query \in HandshakeQueries :
          hs' = [query |-> query, res |-> webhookGet(query)]
    /\ UNCHANGED <<cfgVars, verifyVars, conv, hookVars>>

HandshakeNext == WebhookGet

HandshakeSpec == HandshakeInit /\ [][HandshakeNext]_vars

---------------------------------------------------------------------------
(* GET /ig/conversations, src/index.js 40-117 *)

\* No function stringifyGraphError is defined or imported in the module:
\* evaluating the call of line 114 throws a ReferenceError.
stringifyGraphError(err) == Throw

\* the catch block, lines 111-116: res.status(400) is evaluated, then the
\* argument of json()
ConvCatch(st, err) ==
    IF IsThrow(stringifyGraphError(err)) THEN Rejected(st, 400)
    ELSE [st EXCEPT !.pc = "done",
                    !.resp = Append(@, [status |-> 400, type |-> "json",
                                        body |-> [success |-> FALSE,
                                                  error |-> stringifyGraphError(err)]])]

UpstreamError == Obj([response |-> Obj([status |-> Num(400)])])

ResolutionError == Obj([message |-> Str("Could not resolve IG Business User ID.")])

\* req.query: limit, before and after, each absent or a string
ConvQueries ==
    [limit : {Undefined, Str("5")}, before : {Undefined, Str("b1")},
     after : {Undefined, Str("a1")}]

\* the data of the page lookup, with either linking field or neither
PageData ==
    {Obj(NoFields),
     Obj([connected_instagram_account |-> Obj([id |-> Str("ig1")])]),
     Obj([instagram_business_account |-> Obj([id |-> Str("ig2")])]),
     Obj([connected_instagram_account |-> Obj([id |-> Str("ig1")]),
          instagram_business_account |-> Obj([id |-> Str("ig2")])])}

\* the data of the conversations query
ListData ==
    {Obj(NoFields),
     Obj([data |-> Arr(<<Str("t1")>>)]),
     Obj([data |-> Arr(<<Str("t1")>>), paging |-> Obj([cursors |-> Str("c")])])}

\* lines 88-92
ConvParams(query) ==
    [limit |-> IF query.limit.jt = "undefined" THEN Num(25) ELSE query.limit,
     before |-> IF Truthy(query.before) THEN query.before ELSE Undefined,
     after |-> IF Truthy(query.after) THEN query.after ELSE Undefined]

\* the handler starts and awaits the identity lookup of line 47
ConvGet ==
    /\ conv = Undefined
    /\ \E query \in ConvQueries :
          conv' = [pc |-> "me", query |-> query, igUserId |-> Undefined,
                   params |-> Undefined, failed |-> FALSE, resp |-> <<>>]
    /\ UNCHANGED <<cfgVars, verifyVars, hs, hookVars>>

\* the identity lookup settles; the page lookup of line 53 is awaited
ConvMeSettles ==
    /\ conv # Undefined /\ conv.pc = "me"
    /\ \/ conv' = [conv EXCEPT !.pc = "page"]
       \/ conv' = ConvCatch([conv EXCEPT !.failed = TRUE], UpstreamError)
    /\ UNCHANGED <<cfgVars, verifyVars, hs, hookVars>>

\* the page lookup settles; lines 57-66 and 88-96
ConvPageSettles ==
    /\ conv # Undefined /\ conv.pc = "page"
    /\ \/ \E data \in PageData :
             LET igUserId ==
                   Or(OptGet(OptGet(data, "connected_instagram_account"), "id"),
                      OptGet(OptGet(data, "instagram_business_account"), "id"))
             IN IF ~Truthy(igUserId)
                THEN conv' = ConvCatch([conv EXCEPT !.failed = TRUE], ResolutionError)
                ELSE conv' = [conv EXCEPT !.pc = "list", !.igUserId = igUserId,
                                          !.params = ConvParams(conv.query)]
       \/ conv' = ConvCatch([conv EXCEPT !.failed = TRUE], UpstreamError)
    /\ UNCHANGED <<cfgVars, verifyVars, hs, hookVars>>

\* the conversations query settles; lines 106-110
ConvListSettles ==
    /\ conv # Undefined /\ conv.pc = "list"
    /\ \/ \E data \in ListData :
             conv' = [conv EXCEPT
                        !.pc = "done",
                        !.resp = Append(@, [status |-> 200, type |-> "json",
                                  body |-> [success |-> TRUE,
                                            data |-> Or(Get(data, "data"), Arr(<<>>)),
                                            paging |-> Or(Get(data, "paging"), Null)]])]
       \/ conv' = ConvCatch([conv EXCEPT !.failed = TRUE], UpstreamError)
    /\ UNCHANGED <<cfgVars, verifyVars, hs, hookVars>>

ConvInit ==
    /\ ConfigInit
    /\ IdleInit
    /\ HookInit

ConvNext == ConvGet \/ ConvMeSettles \/ ConvPageSettles \/ ConvListSettles

ConvSpec == ConvInit /\ [][ConvNext]_vars

---------------------------------------------------------------------------
(* What a payload holds, read off the payload alone *)

Field(v, k) == IF v.jt = "object" /\ k \in DOMAIN v.val THEN v.val[k] ELSE Undefined

\* the entries of a payload, none when entry is absent or no array
EntriesIn(b) == IF Field(b, "entry").jt = "array" THEN Field(b, "entry").val ELSE <<>>

\* the events of the list called name of an entry
EventsIn(entry, name) ==
    IF Field(entry, name).jt = "array" THEN Field(entry, name).val ELSE <<>>

\* the list of an entry whose events are looked at: messaging when the entry
\* has one (a value other than undefined and null), standby otherwise
Inspected(entry) ==
    IF Field(entry, "messaging").jt \notin {"undefined", "null"} THEN "messaging"
    ELSE "standby"

\* an entry that is no object, or whose inspected list is present and no array
Malformed(entry) ==
    \/ entry.jt # "object"
    \/ Field(entry, Inspected(entry)).jt \notin {"undefined", "array"}

\* the index of the first malformed entry, past the end when there is none
FirstMalformed(es) ==
    IF \E i \in 1..Len(es) : Malformed(es[i])
    THEN CHOOSE i \in 1..Len(es) :
            Malformed(es[i]) /\ \A h \in 1..(i - 1) : ~Malformed(es[h])
    ELSE Len(es) + 1

HasSenderAndMessage(ev) ==
    /\ Field(Field(ev, "sender"), "id").jt = "string"
    /\ Field(Field(ev, "sender"), "id").val # ""
    /\ Field(ev, "message").jt = "object"

TextOrNoText(ev) ==
    LET t == Field(Field(ev, "message"), "text")
    IN IF t.jt = "string" /\ t.val # "" THEN t.val ELSE "(no text)"

ExpectedPayload(ev) ==
    [messaging_product |-> "instagram",
     recipient |-> [id |-> Field(Field(ev, "sender"), "id")],
     message |-> [text |-> "Thanks for messaging us! You said: \""
                              \o TextOrNoText(ev) \o "\""]]

\* the send calls of request r made for event j of the list called name of entry i
SendsFor(r, i, name, j) ==
    {k \in 1..Len(sends[r]) :
        sends[r][k].at = <<i, j>> /\ Inspected(EntriesIn(body[r])[i]) = name}

ListNames == {"messaging", "standby"}

Authenticated(r) == pc[r] # "idle" /\ verified[r]

Finished(r) == pc[r] = "done" /\ inflight[r] = 0

\* the places <<i, j>> of the inspected events of the entries before entry n
InspectedBefore(es, n) ==
    UNION {{<<i, j>> : j \in 1..Len(EventsIn(es[i], Inspected(es[i])))} :
              i \in {h \in 1..Len(es) : h < n}}

ReplyableBefore(es, n) ==
    {p \in InspectedBefore(es, n) :
        HasSenderAndMessage(EventsIn(es[p[1]], Inspected(es[p[1]]))[p[2]])}

---------------------------------------------------------------------------
(* Claims *)

\* C1: every POST /webhook request that passes the signature check is
\* answered with 200, whatever its payload and whatever the sends do: once
\* its handler has finished, exactly one response was written and its status
\* is 200.
C1_AuthenticatedAlways200 ==
    \A r \in Req :
        (Authenticated(r) /\ Finished(r)) =>
            (Len(resp[r]) = 1 /\ resp[r][1].status = 200)

\* C2: a POST /webhook request that fails the signature check is answered
\* with 403 and makes no send call; a send call of a request implies that the
\* request passed the check.
C2_Unverified403NoSend ==
    \A r \in Req :
        /\ (pc[r] # "idle" /\ ~verified[r]) =>
              /\ Len(resp[r]) = 1 /\ resp[r][1].status = 403
              /\ sends[r] = <<>> /\ inflight[r] = 0
        /\ (sends[r] # <<>>) => verified[r]

\* a request that failed the check although its payload holds a replyable event
C2_Witness ==
    /\ pc[1] = "done" /\ ~verified[1]
    /\ resp[1] = <<SendStatus(403)>>
    /\ ReplyableBefore(EntriesIn(body[1]), 2) # {}

\* C3: with APP_SECRET set, the check returns false for every signature
\* string other than "sha256=" + hex(HMAC(secret, body)).
C3_TamperedSignatureRejected ==
    (/\ verdict # Undefined
     /\ Truthy(APP_SECRET)
     /\ vreq.sig.jt = "string"
     /\ \/ vreq.rawBody.jt # "bytes"
        \/ vreq.sig.val # Expected(APP_SECRET, vreq.rawBody))
        => verdict.val = FALSE

\* C4: GET /webhook answers 200 with the challenge as its body exactly when
\* hub.mode is "subscribe" and hub.verify_token is the configured
\* VERIFY_TOKEN, and 403 for every other mode, token and configuration, an
\* absent token included.  (The body of the 403 is left out of the statement.)
C4_HandshakeIffTokenMatches ==
    hs # Undefined =>
        LET q == hs.query
            matches == /\ q.mode = Str("subscribe")
                       /\ q.token.jt = "string"
                       /\ VERIFY_TOKEN.jt = "string"
                       /\ q.token = VERIFY_TOKEN
        IN IF matches
           THEN /\ hs.res.status = 200
                /\ hs.res.body = (IF q.challenge.jt = "string" THEN q.challenge.val ELSE "")
           ELSE hs.res.status = 403

\* C5: a GET /ig/conversations request whose account resolution or
\* conversations query fails is answered with 400 and the JSON body
\* {success: false, error: ...}.
C5_FailureIs400Json ==
    (conv # Undefined /\ conv.pc = "done" /\ conv.failed) =>
        /\ Len(conv.resp) = 1
        /\ conv.resp[1].status = 400
        /\ conv.resp[1].type = "json"
        /\ conv.resp[1].body.success = FALSE

C7_StandbyNeverReplied ==
    \A r \in Req :
        \A k \in 1..Len(sends[r]) :
            LET entry == EntriesIn(body[r])[sends[r][k].at[1]]
            IN Field(entry, "messaging").jt = "array"

\* the payloads of the sends that the events of a payload call for, in the
\* order of the payload
RECURSIVE ExpectedReplies(_, _, _)
ExpectedReplies(es, i, j) ==
    IF i >= FirstMalformed(es) THEN <<>>
    ELSE LET evs == EventsIn(es[i], Inspected(es[i])) IN
         IF j > Len(evs) THEN ExpectedReplies(es, i + 1, 1)
         ELSE (IF HasSenderAndMessage(evs[j]) THEN <<ExpectedPayload(evs[j])>> ELSE <<>>)
                 \o ExpectedReplies(es, i, j + 1)

IsPrefix(s, t) == Len(s) <= Len(t) /\ s = SubSeq(t, 1, Len(s))

\* C8: within a request the sends are issued in the order of the events of
\* the payload and one at a time: a request never has more than one
\* outstanding send, and every send but an outstanding one has completed.
C8_OrderedOneAtATime ==
    \A r \in Req :
        /\ inflight[r] <= 1
        /\ Len(sends[r]) = settled[r] + inflight[r]
        /\ IsPrefix([k \in 1..Len(sends[r]) |-> sends[r][k].payload],
                    ExpectedReplies(EntriesIn(body[r]), 1, 1))

\* two requests with an outstanding send each, one of them on its second send
C8_Witness ==
    /\ inflight[1] = 1 /\ inflight[2] = 1
    /\ Len(sends[1]) = 2
    /\ sends[1][1].payload # sends[1][2].payload

WellFormedResult(res) ==
    /\ res.ok \in BOOLEAN
    /\ ~res.ok => DOMAIN res.error = {"status", "code", "subcode", "message", "type"}

C10_OneResponseAfterAllSends ==
    /\ [](\A r \in Req :
            /\ Len(resp[r]) <= 1
            /\ resp[r] # <<>> => (inflight[r] = 0 /\ pc[r] = "done"))
    /\ [][\A r \in Req : resp[r] # <<>> => (sends'[r] = sends[r] /\ resp'[r] = resp[r])]_vars
    /\ \A r \in Req : (pc[r] # "idle") ~> (Len(resp[r]) = 1)

\* a request answered with 200 after two sends that both settled
C10_Witness ==
    /\ verified[1] /\ Len(sends[1]) = 2 /\ settled[1] = 2
    /\ inflight[1] = 0
    /\ resp[1] = <<SendStatus(200)>>

====
